---- MODULE Spec2Model ----
(***************************************************************************)
(* Model of scripts/download_images.py (export) and                        *)
(* scripts/import_images.py (import): command-line resolution of the work  *)
(* list, the ThreadPoolExecutor batch, the per-item tasks with the docker  *)
(* invocations they issue, result collection, the post-batch steps and the *)
(* process exit code.                                                      *)
(*                                                                         *)
(* One behaviour is one process run.  The docker image store and the       *)
(* output directory are environment state: Init draws them freely for the  *)
(* images and archives the invocation can touch.                           *)
(***************************************************************************)
EXTENDS Integers, Sequences, FiniteSets, TLC

\* Longest --images / --files list and longest compose service list.
MaxItems == 2
\* Largest --workers value.
MaxWorkers == 2

\* Python's None, where a str may stand in its place.
None == "<None>"

(***************************************************************************)
(* Image references.  A reference is a string; Chars spells it so that     *)
(* str.replace can be computed character by character.                     *)
(***************************************************************************)
UserRefs == {"a/b:c", "a_b:c"}

TableRefs == {"haxqer/confluence:9.2.1", "haxqer/confluence:8.5.23",
              "mysql:8.0", "postgres:15"}

Refs == UserRefs \cup TableRefs

Chars(image) ==
  CASE image = "a/b:c" -> <<"a", "/", "b", ":", "c">>
    [] image = "a_b:c" -> <<"a", "_", "b", ":", "c">>
    [] image = "haxqer/confluence:9.2.1" ->
         <<"h", "a", "x", "q", "e", "r", "/", "c", "o", "n", "f", "l", "u",
           "e", "n", "c", "e", ":", "9", ".", "2", ".", "1">>
    [] image = "haxqer/confluence:8.5.23" ->
         <<"h", "a", "x", "q", "e", "r", "/", "c", "o", "n", "f", "l", "u",
           "e", "n", "c", "e", ":", "8", ".", "5", ".", "2", "3">>
    [] image = "mysql:8.0" -> <<"m", "y", "s", "q", "l", ":", "8", ".", "0">>
    [] image = "postgres:15" ->
         <<"p", "o", "s", "t", "g", "r", "e", "s", ":", "1", "5">>

\* str.replace(old, new) for one-character old and new: every occurrence.
Replace(s, old, new) ==
  [k \in 1..Len(s) |-> IF s[k] = old THEN new ELSE s[k]]

RECURSIVE Join(_)
Join(s) == IF s = <<>> THEN "" ELSE Head(s) \o Join(Tail(s))

\* safe_name = image.replace(':', '-').replace('/', '_')
SafeName(image) == Join(Replace(Replace(Chars(image), ":", "-"), "/", "_"))

\* tar_file = self.output_dir / f"{safe_name}.tar"
TarFile(image) == SafeName(image) \o ".tar"

\* self.image_configs
image_configs ==
  [mysql |->
     [confluence_9_2_1 |-> <<"haxqer/confluence:9.2.1", "mysql:8.0">>,
      confluence_8_5_23 |-> <<"haxqer/confluence:8.5.23", "mysql:8.0">>],
   postgresql |->
     [confluence_9_2_1 |-> <<"haxqer/confluence:9.2.1", "postgres:15">>,
      confluence_8_5_23 |-> <<"haxqer/confluence:8.5.23", "postgres:15">>]]

DbChoices == {"mysql", "postgresql"}
VersionChoices == {"confluence_9_2_1", "confluence_8_5_23"}

\* Archive files an import run is pointed at.
ImportFiles == {TarFile("a/b:c"), TarFile("mysql:8.0")}

(***************************************************************************)
(* Small helpers.                                                          *)
(***************************************************************************)
Range(s) == {s[k] : k \in 1..Len(s)}

SeqsUpTo(S, lo, hi) == UNION {[1..n -> S] : n \in lo..hi}

\* The sequences of SeqsUpTo(S, lo, hi) that name no member twice.
DistinctSeqsUpTo(S, lo, hi) ==
  {s \in SeqsUpTo(S, lo, hi) : \A j, k \in DOMAIN s : s[j] = s[k] => j = k}

\* A compose service without an 'image' key.
NoImage == "<no image>"

\* parse_compose_file: the 'image' of every service that has one, in order.
RECURSIVE ServiceImages(_)
ServiceImages(services) ==
  IF services = <<>> THEN <<>>
  ELSE IF Head(services) = NoImage THEN ServiceImages(Tail(services))
  ELSE <<Head(services)>> \o ServiceImages(Tail(services))

parse_compose_file(cd) ==
  IF cd.kind = "ok" THEN ServiceImages(cd.services) ELSE <<>>

\* get_predefined_images
get_predefined_images(db_type, confluence_version) ==
  IF db_type \notin DOMAIN image_configs THEN <<>>
  ELSE IF confluence_version \notin DOMAIN image_configs[db_type] THEN <<>>
  ELSE image_configs[db_type][confluence_version]

(***************************************************************************)
(* State.                                                                  *)
(***************************************************************************)
VARIABLES
  prog,              \* "export" (download_images.py) or "import" (import_images.py)
  args,              \* the parsed command line
  compose_data,      \* the compose file named by --compose
  dir_exists,        \* whether the import directory exists
  start,             \* the image store and the directory as the run found them
  local_images,      \* the docker image store: what `docker image inspect` finds
  disk,              \* archive path -> [st, ino]: the output / images directory
  pc,                \* position of main()
  exit_code,         \* process exit code, -1 while running
  images,            \* export work list
  tar_files,         \* import work list
  tpc,               \* per submitted task: position of the task function
  result,            \* per submitted task: what its future holds
  fh,                \* per export task: inode its open archive handle writes to
  downloaded_images, failed_images,
  imported_images, failed_imports, skipped_images,
  pre,               \* as_completed: futures already finished when it was called
  finished_futures,  \* as_completed: waiter.finished_futures
  harvested,         \* tasks in the order the collector loop took them
  completed,         \* tasks in the order their futures finished
  issued,            \* docker pull / save / load invocations issued, as <<op, item>>
  recorded,          \* per task: the collections a record was appended to for it
  errors,            \* per task: the last Logger.error message about it
  trace,             \* per task: what pull_image and save_image did (export),
                     \* what a successful `docker load` printed (import)
  manifest,          \* images_manifest.json written by this run
  abort,             \* why main stopped before the batch, "none" otherwise
  post               \* what the post-batch steps did

vars == <<prog, args, compose_data, dir_exists, start, local_images, disk, pc,
          exit_code, images, tar_files, tpc, result, fh, downloaded_images,
          failed_images, imported_images, failed_imports, skipped_images,
          pre, finished_futures, harvested, completed, issued, recorded,
          errors, trace, manifest, abort, post>>

envVars == <<prog, args, compose_data, dir_exists, start>>
storeVars == <<local_images>>
listVars == <<images, tar_files>>
taskVars == <<tpc, result, fh>>
exportResults == <<downloaded_images, failed_images>>
importResults == <<imported_images, failed_imports, skipped_images>>
collectVars == <<pre, finished_futures, harvested>>
ghostVars == <<issued, recorded, errors, trace>>
batchVars == <<taskVars, exportResults, importResults, collectVars, completed,
               ghostVars>>

ComposePath == "docker-compose.yml"
Workers == 1..MaxWorkers

\* File states: no file, a file of 0 bytes, a file holding archive bytes.
FileStates == {"absent", "empty", "full"}

File(st, ino) == [st |-> st, ino |-> ino]

(***************************************************************************)
(* Command lines.                                                          *)
(***************************************************************************)
ExportArg(c, i, d, v, w) ==
  [compose |-> c, images |-> i, db |-> d, version |-> v, workers |-> w,
   files |-> <<>>]

ExportArgs ==
  \* --compose FILE
  {ExportArg(ComposePath, <<>>, None, None, w) : w \in Workers}
  \* --images REF..., each reference named once (a compose file is what
  \* repeats one)
  \cup {ExportArg(None, i, None, None, w) :
          i \in DistinctSeqsUpTo(UserRefs, 1, MaxItems), w \in Workers}
  \* --db D --version V, alone or next to an empty --compose
  \cup {ExportArg(c, <<>>, d, v, w) :
          c \in {None, ""}, d \in DbChoices, v \in VersionChoices, w \in Workers}
  \* no selector; an empty --compose alone; --compose with --images;
  \* --db without --version
  \cup {ExportArg(None, <<>>, None, None, 1),
        ExportArg("", <<>>, None, None, 1),
        ExportArg(ComposePath, <<"a/b:c">>, None, None, 1),
        ExportArg(ComposePath, <<>>, "mysql", None, 1)}

ComposeFiles ==
  {[kind |-> "missing", services |-> <<>>],
   [kind |-> "unparseable", services |-> <<>>]}
  \cup {[kind |-> "ok", services |-> s] :
          s \in SeqsUpTo({"a/b:c", NoImage}, 0, MaxItems)}

NoComposeFile == [kind |-> "missing", services |-> <<>>]

ImportArgs ==
  {[compose |-> None, images |-> <<>>, db |-> None, version |-> None,
    workers |-> w, files |-> f] :
     w \in Workers, f \in DistinctSeqsUpTo(ImportFiles, 0, MaxItems)}

\* argparse: the required mutually exclusive group holds --compose and
\* --images only; then main's own check of --db / --version.
ParseOk(a) ==
  /\ (a.compose # None) # (a.images # <<>>)
  /\ (a.db # None \/ a.version # None) => (a.db # None /\ a.version # None)

\* main, "获取镜像列表": the work list the selectors resolve to.
SelectImages(a, cd) ==
  IF a.compose # None /\ a.compose # "" THEN parse_compose_file(cd)
  ELSE IF a.images # <<>> THEN a.images
  ELSE IF a.db # None /\ a.version # None
    THEN get_predefined_images(a.db, a.version)
  ELSE <<>>

Init ==
  /\ prog \in {"export", "import"}
  /\ IF prog = "export"
       THEN /\ args \in ExportArgs
            /\ compose_data \in
                 (IF args.compose = ComposePath THEN ComposeFiles
                  ELSE {NoComposeFile})
            /\ dir_exists = TRUE
            /\ LET touched == Range(SelectImages(args, compose_data))
               IN  /\ local_images \in SUBSET touched
                   /\ disk \in [{TarFile(x) : x \in touched} ->
                                  {File(st, 0) : st \in FileStates}]
       ELSE /\ args \in ImportArgs
            /\ compose_data = NoComposeFile
            /\ dir_exists \in BOOLEAN
            /\ local_images = {}
            /\ disk \in [ImportFiles ->
                           IF dir_exists
                             THEN {File(st, 0) : st \in FileStates}
                             ELSE {File("absent", 0)}]
  /\ start = [local_images |-> local_images, disk |-> disk]
  /\ pc = IF prog = "export" THEN "parse_args" ELSE "check_docker"
  /\ exit_code = -1
  /\ images = <<>>
  /\ tar_files = <<>>
  /\ tpc = <<>>
  /\ result = <<>>
  /\ fh = <<>>
  /\ downloaded_images = <<>>
  /\ failed_images = <<>>
  /\ imported_images = <<>>
  /\ failed_imports = <<>>
  /\ skipped_images = <<>>
  /\ pre = {}
  /\ finished_futures = <<>>
  /\ harvested = <<>>
  /\ completed = <<>>
  /\ issued = {}
  /\ recorded = <<>>
  /\ errors = <<>>
  /\ trace = <<>>
  /\ manifest = <<>>
  /\ abort = "none"
  /\ post = "none"

(***************************************************************************)
(* main() up to the batch.                                                 *)
(***************************************************************************)
\* sys.exit(code), or an uncaught exception (the interpreter exits with 1).
Exit(code, why) ==
  /\ pc' = "exit"
  /\ exit_code' = code
  /\ abort' = why

\* download_images.py: parser.parse_args() and the --db / --version check.
ParseArgs ==
  /\ prog = "export"
  /\ pc = "parse_args"
  /\ IF ParseOk(args)
       THEN pc' = "check_docker" /\ UNCHANGED <<exit_code, abort>>
       ELSE Exit(2, "usage")
  /\ UNCHANGED <<envVars, storeVars, disk, listVars, batchVars, manifest,
                 post>>

\* Mutant of CheckDocker: the failed probe is reported but main goes on.
CheckDockerNoExit ==
  /\ pc = "check_docker"
  /\ \E available \in BOOLEAN :
       /\ pc' = "get_list"
       /\ abort' = (IF available THEN abort ELSE "no_docker")
       /\ UNCHANGED exit_code
  /\ UNCHANGED <<envVars, storeVars, disk, listVars, batchVars, manifest,
                 post>>

\* check_docker(): `docker --version` (and `docker info` on import).
CheckDocker ==
  /\ pc = "check_docker"
  /\ \E available \in BOOLEAN :
       IF available
         THEN pc' = "get_list" /\ UNCHANGED <<exit_code, abort>>
         ELSE Exit(1, "no_docker")
  /\ UNCHANGED <<envVars, storeVars, disk, listVars, batchVars, manifest,
                 post>>

\* download_images.py main: "获取镜像列表" up to the call of download_images.
GetImageList ==
  /\ prog = "export"
  /\ pc = "get_list"
  /\ LET list == SelectImages(args, compose_data)
     IN  IF /\ args.compose # None
            /\ args.compose # ""
            /\ compose_data.kind = "missing"
           THEN Exit(1, "no_compose") /\ UNCHANGED images
         ELSE IF list = <<>>
           THEN Exit(1, "no_images") /\ UNCHANGED images
         ELSE /\ images' = list
              /\ pc' = "submit"
              /\ UNCHANGED <<exit_code, abort>>
  /\ UNCHANGED <<envVars, storeVars, disk, tar_files, batchVars, manifest,
                 post>>

Exists(path) == disk[path].st # "absent"

\* Sequences listing each member of S once: the orders glob may return.
Orders(S) ==
  {s \in [1..Cardinality(S) -> S] : \A x \in S : \E k \in DOMAIN s : s[k] = x}

\* [tar_file for file_path in args.files if tar_file.exists()]
RECURSIVE ExistingFiles(_)
ExistingFiles(files) ==
  IF files = <<>> THEN <<>>
  ELSE IF Exists(Head(files))
    THEN <<Head(files)>> \o ExistingFiles(Tail(files))
  ELSE ExistingFiles(Tail(files))

\* find_image_files(): the *.tar files of the directory, in glob's order.
find_image_files ==
  IF ~dir_exists THEN {<<>>}
  ELSE Orders({f \in ImportFiles : Exists(f)})

\* import_images.py main: "获取要导入的文件列表".
GetFileList ==
  /\ prog = "import"
  /\ pc = "get_list"
  /\ \E list \in (IF args.files # <<>> THEN {ExistingFiles(args.files)}
                  ELSE find_image_files) :
       IF list = <<>>
         THEN Exit(1, "no_files") /\ UNCHANGED tar_files
         ELSE /\ tar_files' = list
              /\ pc' = "verify"
              /\ UNCHANGED <<exit_code, abort>>
  /\ UNCHANGED <<envVars, storeVars, disk, images, batchVars, manifest,
                 post>>

\* A manifest entry without a 'file' key.
NoFile == "<no file>"

\* What images_manifest.json in the import directory may hold.
ManifestFiles ==
  {[kind |-> k, entries |-> <<>>] :
     k \in {"absent", "unreadable", "not_object", "empty_object"}}
  \cup {[kind |-> "object", entries |-> e] :
          e \in SeqsUpTo(ImportFiles \cup {NoFile}, 0, 1)}

\* load_manifest(): the parsed document, or None.
load_manifest(m) ==
  IF m.kind \in {"absent", "unreadable", "not_object"} THEN None ELSE m.kind

\* import_images.py main: "加载并验证清单文件" and the listing of the files.
\* img['file'] raises KeyError for an entry without that key.
VerifyManifest ==
  /\ prog = "import"
  /\ pc = "verify"
  /\ \E no_verify \in BOOLEAN, m \in ManifestFiles :
       IF /\ ~no_verify
          /\ load_manifest(m) = "object"
          /\ NoFile \in Range(m.entries)
         THEN Exit(1, "manifest_crash")
         ELSE pc' = "submit" /\ UNCHANGED <<exit_code, abort>>
  /\ UNCHANGED <<envVars, storeVars, disk, listVars, batchVars, manifest,
                 post>>

(***************************************************************************)
(* The batch: ThreadPoolExecutor(max_workers), executor.submit per item,    *)
(* as_completed.                                                           *)
(***************************************************************************)
max_workers == args.workers

\* The work list of the running program, and its length.
Items == IF prog = "export" THEN images ELSE tar_files
N == Len(Items)

Tasks == 1..Len(tpc)

Running(i) == tpc[i] \notin {"queued", "done"}

\* An export task that has called neither pull_image nor save_image: pull and
\* save are what the two calls gave, seen is the state of the archive file
\* at the tar_file.exists() test, opened whether the file was opened and
\* `docker save` started.
NoTrace == [pull |-> "none", seen |-> "none", opened |-> FALSE, save |-> "none"]

\* What a future holds.
NoResult == [kind |-> "pending"]
Returned(name, success, error_msg) ==
  [kind |-> "returned", name |-> name, success |-> success,
   error_msg |-> error_msg]
Raised(e) == [kind |-> "raised", e |-> e]

\* str(e) of an exception that leaves a task function.
ExcMsgs == {"", "boom"}
\* str(e) of the OSError a failing open or subprocess.run raises.
OSErrorMsg == "[Errno 12] Cannot allocate memory"
\* stderr of a failed docker invocation.
Stderrs == {"", "denied"}

\* executor.submit(task, item): one future per item, in list order.
Submit ==
  /\ pc = "submit"
  /\ Len(tpc) < N
  /\ tpc' = Append(tpc, "queued")
  /\ result' = Append(result, NoResult)
  /\ fh' = Append(fh, 0)
  /\ recorded' = Append(recorded, <<>>)
  /\ errors' = Append(errors, "")
  /\ trace' = Append(trace, NoTrace)
  /\ UNCHANGED <<envVars, storeVars, disk, pc, exit_code, listVars,
                 exportResults, importResults, collectVars, completed, issued,
                 manifest, abort, post>>

\* A pool thread takes the oldest queued work item; the pool never runs more
\* than max_workers threads.
CanStart(i) ==
  /\ tpc[i] = "queued"
  /\ \A j \in Tasks : j < i => tpc[j] # "queued"
  /\ Cardinality({j \in Tasks : Running(j)}) < max_workers

TaskStart(i) ==
  /\ CanStart(i)
  /\ tpc' = [tpc EXCEPT ![i] = IF prog = "export" THEN "pull" ELSE "precheck"]
  /\ UNCHANGED <<envVars, storeVars, disk, pc, exit_code, listVars, result,
                 fh, exportResults, importResults, collectVars, completed,
                 ghostVars, manifest, abort, post>>

\* The future of task i finishes holding r; a waiter installed by
\* as_completed is told.
Finish(i, r) ==
  /\ tpc' = [tpc EXCEPT ![i] = "done"]
  /\ result' = [result EXCEPT ![i] = r]
  /\ completed' = Append(completed, i)
  /\ finished_futures' =
       IF pc = "collect" THEN Append(finished_futures, i) ELSE finished_futures
  /\ UNCHANGED <<pre, harvested>>

(***************************************************************************)
(* Export task: download_and_save_image = pull_image, save_image, record.  *)
(***************************************************************************)
\* What pull_image / save_image gave download_and_save_image for outcome o of
\* the step: True, False (also for an exception the function handled), or
\* the exception that left it.
Ret(o) ==
  CASE o = "ok" -> "True"
    [] o \in {"fail", "raise"} -> "False"
    [] OTHER -> "raised"

\* download_and_save_image, lines 210-215, success = True.
RecordDownloaded(i) ==
  /\ downloaded_images' = Append(downloaded_images, images[i])
  /\ recorded' = [recorded EXCEPT ![i] = Append(@, "succeeded")]
  /\ Finish(i, Returned(images[i], TRUE, ""))
  /\ UNCHANGED <<failed_images, errors>>

\* download_and_save_image, lines 210-215, success = False, after pull_image
\* or save_image logged msg.
RecordFailed(i, msg) ==
  /\ failed_images' = Append(failed_images, images[i])
  /\ recorded' = [recorded EXCEPT ![i] = Append(@, "failed")]
  /\ errors' = [errors EXCEPT ![i] = msg]
  /\ Finish(i, Returned(images[i], FALSE, ""))
  /\ UNCHANGED downloaded_images

\* An exception leaves the task function: one raised inside an except
\* handler of pull_image / save_image.  Nothing is appended by the worker.
Escape(i, e) ==
  /\ Finish(i, Raised(e))
  /\ UNCHANGED <<downloaded_images, failed_images, recorded, errors>>

\* How a task leaves a failed step: the step's outcome o is "fail" (non-zero
\* exit), "raise" (open or subprocess.run raised an OSError, handled) or
\* "escape" (the except handler raised in turn).
FailStep(i, o, failmsg, excmsg) ==
  CASE o = "fail" -> RecordFailed(i, failmsg)
    [] o = "raise" -> RecordFailed(i, excmsg \o OSErrorMsg)
    [] o = "escape" -> \E e \in ExcMsgs : Escape(i, e)

\* Mutant of PullImage: download_and_save_image goes on to save_image
\* whatever pull_image gave.
PullImageThenSave(i) ==
  /\ prog = "export"
  /\ tpc[i] = "pull"
  /\ tpc' = [tpc EXCEPT ![i] = "save"]
  /\ IF images[i] \in local_images
       THEN /\ trace' = [trace EXCEPT ![i].pull = "True"]
            /\ UNCHANGED <<storeVars, issued>>
       ELSE /\ issued' = issued \cup {<<"pull", images[i]>>}
            /\ \E o \in {"ok", "fail"} :
                 /\ trace' = [trace EXCEPT ![i].pull = Ret(o)]
                 /\ local_images' =
                      IF o = "ok" THEN local_images \cup {images[i]}
                      ELSE local_images
  /\ UNCHANGED <<envVars, disk, pc, exit_code, listVars, result, fh,
                 exportResults, importResults, collectVars, completed,
                 recorded, errors, manifest, abort, post>>

\* pull_image: image_exists_locally, then `docker pull` unless the image is
\* in the local store.
PullImage(i) ==
  /\ prog = "export"
  /\ tpc[i] = "pull"
  /\ IF images[i] \in local_images
       THEN /\ tpc' = [tpc EXCEPT ![i] = "save"]
            /\ trace' = [trace EXCEPT ![i].pull = "True"]
            /\ UNCHANGED <<storeVars, issued, result, exportResults,
                           collectVars, completed, recorded, errors>>
       ELSE /\ issued' = issued \cup {<<"pull", images[i]>>}
            /\ \E o \in {"ok", "fail", "raise", "escape"} :
                 /\ trace' = [trace EXCEPT ![i].pull = Ret(o)]
                 /\ IF o = "ok"
                   THEN /\ local_images' = local_images \cup {images[i]}
                        /\ tpc' = [tpc EXCEPT ![i] = "save"]
                        /\ UNCHANGED <<result, exportResults, collectVars,
                                       completed, recorded, errors>>
                   ELSE /\ FailStep(i, o, "pull failed: " \o images[i],
                                    "pull of " \o images[i] \o " raised: ")
                        /\ UNCHANGED storeVars
  /\ UNCHANGED <<envVars, disk, pc, exit_code, listVars, fh, importResults,
                 manifest, abort, post>>

\* Mutant of SaveCheck: the archive is written whether or not it exists.
SaveCheckNoSkip(i) ==
  /\ prog = "export"
  /\ tpc[i] = "save"
  /\ tpc' = [tpc EXCEPT ![i] = "open"]
  /\ UNCHANGED <<envVars, storeVars, disk, pc, exit_code, listVars, result,
                 fh, exportResults, importResults, collectVars, completed,
                 ghostVars, manifest, abort, post>>

\* save_image: the tar_file.exists() test.
SaveCheck(i) ==
  /\ prog = "export"
  /\ tpc[i] = "save"
  /\ IF Exists(TarFile(images[i]))
       THEN /\ trace' = [trace EXCEPT ![i].seen = disk[TarFile(images[i])].st,
                                       ![i].save = "True"]
            /\ RecordDownloaded(i)
       ELSE /\ trace' = [trace EXCEPT ![i].seen = "absent"]
            /\ tpc' = [tpc EXCEPT ![i] = "open"]
            /\ UNCHANGED <<result, exportResults, collectVars, completed,
                           recorded, errors>>
  /\ UNCHANGED <<envVars, storeVars, disk, pc, exit_code, listVars, fh,
                 importResults, issued, manifest, abort, post>>

\* save_image: open(tar_file, 'wb') creates the file or truncates the one
\* that is there, and `docker save` is started with it as stdout.
SaveOpen(i) ==
  /\ prog = "export"
  /\ tpc[i] = "open"
  /\ LET path == TarFile(images[i])
         ino == IF Exists(path) THEN disk[path].ino ELSE i
     IN  \E o \in {"ok", "raise", "escape"} :
           IF o = "ok"
             THEN /\ trace' = [trace EXCEPT ![i].opened = TRUE]
                  /\ disk' = [disk EXCEPT ![path] = File("empty", ino)]
                  /\ fh' = [fh EXCEPT ![i] = ino]
                  /\ issued' = issued \cup {<<"save", images[i]>>}
                  /\ tpc' = [tpc EXCEPT ![i] = "saving"]
                  /\ UNCHANGED <<result, exportResults, collectVars,
                                 completed, recorded, errors>>
             ELSE /\ trace' = [trace EXCEPT ![i].save = Ret(o)]
                  /\ FailStep(i, o, "",
                              "save of " \o images[i] \o " raised: ")
                  /\ UNCHANGED <<disk, fh, issued>>
  /\ UNCHANGED <<envVars, storeVars, pc, exit_code, listVars,
                 importResults, manifest, abort, post>>

\* save_image: `docker save` returns (or subprocess.run raises).  On exit 0
\* the bytes are in the file the handle refers to and tar_file.stat() is
\* read; on a non-zero exit the file at the path is unlinked.
SaveDone(i) ==
  /\ prog = "export"
  /\ tpc[i] = "saving"
  /\ LET path == TarFile(images[i])
         mine == Exists(path) /\ disk[path].ino = fh[i]
     IN  \E o \in {"ok", "fail", "raise", "escape"} :
           CASE o = "ok" /\ Exists(path) ->
                  /\ trace' = [trace EXCEPT ![i].save = "True"]
                  /\ disk' = IF mine
                               THEN [disk EXCEPT ![path] = File("full", fh[i])]
                               ELSE disk
                  /\ RecordDownloaded(i)
             [] o = "ok" /\ ~Exists(path) ->
                  \* stat() raises FileNotFoundError: the except branch
                  /\ trace' = [trace EXCEPT ![i].save = "False"]
                  /\ UNCHANGED disk
                  /\ FailStep(i, "raise", "",
                              "save of " \o images[i] \o " raised: ")
             [] o = "fail" ->
                  /\ trace' = [trace EXCEPT ![i].save = "False"]
                  /\ disk' = [disk EXCEPT ![path] = File("absent", 0)]
                  /\ FailStep(i, o, "save failed: " \o images[i], "")
             [] OTHER ->
                  /\ trace' = [trace EXCEPT ![i].save = Ret(o)]
                  /\ UNCHANGED disk
                  /\ FailStep(i, o, "",
                              "save of " \o images[i] \o " raised: ")
  /\ UNCHANGED <<envVars, storeVars, pc, exit_code, listVars, fh,
                 importResults, issued, manifest, abort, post>>

(***************************************************************************)
(* Import task: import_single_image.                                       *)
(***************************************************************************)
\* The future of import task i finishes; import_single_image records nothing
\* itself.
ImportFinish(i, r, msg) ==
  /\ Finish(i, r)
  /\ errors' = [errors EXCEPT ![i] = msg]
  /\ UNCHANGED recorded

\* import_single_image: the exists / size tests, then `docker load` starts.
ImportPrecheck(i) ==
  /\ prog = "import"
  /\ tpc[i] = "precheck"
  /\ LET f == tar_files[i]
     IN  CASE disk[f].st = "absent" ->
                /\ ImportFinish(i, Returned(f, FALSE, "no such file: " \o f),
                                "no such file: " \o f)
                /\ UNCHANGED issued
           [] disk[f].st = "empty" ->
                /\ ImportFinish(i, Returned(f, FALSE, "empty file: " \o f),
                                "empty file: " \o f)
                /\ UNCHANGED issued
           [] OTHER ->
                /\ tpc' = [tpc EXCEPT ![i] = "loading"]
                /\ issued' = issued \cup {<<"load", f>>}
                /\ UNCHANGED <<result, collectVars, completed, recorded,
                               errors>>
  /\ UNCHANGED <<envVars, storeVars, disk, pc, exit_code, listVars, fh,
                 exportResults, importResults, trace, manifest, abort, post>>

\* What `docker load` may print on stderr when it exits 0.
LoadStderrs == {"", "Loaded image: a/b:c"}

\* import_single_image: the name after 'Loaded image:' in stderr, "unknown"
\* when no line starts with it.
ImportedImage(stderr) ==
  IF stderr = "Loaded image: a/b:c" THEN "a/b:c" ELSE "unknown"

\* tar_file.stem, character by character: the archives are named as
\* save_image names them.
Stem(f) ==
  LET image == CHOOSE x \in Refs : TarFile(x) = f
  IN  Replace(Replace(Chars(image), ":", "-"), "/", "_")

\* s with its first occurrence of old replaced by new: str.replace(old, new, 1).
ReplaceFirst(s, old, new) ==
  IF \E k \in DOMAIN s : s[k] = old
    THEN LET first == CHOOSE k \in DOMAIN s :
                        s[k] = old /\ \A j \in 1..(k - 1) : s[j] # old
         IN  [k \in DOMAIN s |-> IF k = first THEN new ELSE s[k]]
    ELSE s

\* get_image_name_from_tar, the inference from the file name: the stem is cut
\* at its first '_' into namespace and repo-tag, and the first '-' of the
\* repo-tag becomes ':'.  None when the stem lacks '_' or '-'.  No caller
\* exists: import_single_image does not use it.
get_image_name_from_tar(f) ==
  LET filename == Stem(f)
  IN  IF "_" \in Range(filename) /\ "-" \in Range(filename)
        THEN LET cut == CHOOSE k \in DOMAIN filename :
                          filename[k] = "_"
                          /\ \A j \in 1..(k - 1) : filename[j] # "_"
                 namespace == SubSeq(filename, 1, cut - 1)
                 repo_tag == ReplaceFirst(
                               SubSeq(filename, cut + 1, Len(filename)),
                               "-", ":")
             IN  Join(namespace) \o "/" \o Join(repo_tag)
        ELSE None

\* `docker load` returns (or subprocess.run raises).
LoadDone(i) ==
  /\ prog = "import"
  /\ tpc[i] = "loading"
  /\ LET f == tar_files[i]
     IN  \E o \in {"ok", "fail", "raise", "escape"} :
           CASE o = "ok" ->
                  \E stderr \in LoadStderrs :
                    /\ Finish(i, Returned(ImportedImage(stderr), TRUE, ""))
                    /\ trace' = [trace EXCEPT ![i] = [stderr |-> stderr]]
                    /\ UNCHANGED <<recorded, errors>>
             [] o = "fail" ->
                  \E stderr \in Stderrs :
                    /\ ImportFinish(i,
                                    Returned(f, FALSE, "load failed: " \o stderr),
                                    f \o ": load failed: " \o stderr)
                    /\ UNCHANGED trace
             [] o = "raise" ->
                  /\ ImportFinish(i,
                                  Returned(f, FALSE, "load raised: " \o OSErrorMsg),
                                  f \o ": load raised: " \o OSErrorMsg)
                  /\ UNCHANGED trace
             [] OTHER ->
                  \E e \in ExcMsgs :
                    /\ Finish(i, Raised(e))
                    /\ UNCHANGED <<recorded, errors, trace>>
  /\ UNCHANGED <<envVars, storeVars, disk, pc, exit_code, listVars, fh,
                 exportResults, importResults, issued, manifest, abort, post>>

(***************************************************************************)
(* The collector loop of download_images / import_images.                  *)
(***************************************************************************)
\* as_completed(futures) is called once every item is submitted: the futures
\* already finished are yielded first, in no particular order.
AsCompleted ==
  /\ pc = "submit"
  /\ Len(tpc) = N
  /\ pc' = "collect"
  /\ pre' = {i \in Tasks : tpc[i] = "done"}
  /\ UNCHANGED <<envVars, storeVars, disk, exit_code, listVars, taskVars,
                 exportResults, importResults, finished_futures, harvested,
                 completed, ghostVars, manifest, abort, post>>

\* Mutant of Yields: the futures are waited for in submission order.
YieldsInSubmissionOrder(i) ==
  /\ tpc[i] = "done"
  /\ i \notin Range(harvested)
  /\ \A j \in Tasks : j < i => j \in Range(harvested)

\* The future as_completed yields next: any of the futures that were finished
\* at the call, then the others in the order they finish.
Yields(i) ==
  IF pre \ Range(harvested) # {}
    THEN i \in pre \ Range(harvested)
    ELSE finished_futures # <<>> /\ i = Head(finished_futures)

Take(i) ==
  /\ harvested' = Append(harvested, i)
  /\ finished_futures' =
       IF i \in pre THEN finished_futures ELSE Tail(finished_futures)
  /\ UNCHANGED pre

\* Mutant of HarvestExport: the except branch logs and appends nothing.
HarvestExportDrop(i) ==
  /\ prog = "export"
  /\ pc = "collect"
  /\ Yields(i)
  /\ Take(i)
  /\ UNCHANGED <<envVars, storeVars, disk, pc, exit_code, listVars,
                 taskVars, exportResults, importResults, completed,
                 ghostVars, manifest, abort, post>>

\* Mutant of HarvestExport: no try around future.result(), so a task's
\* exception ends main.
HarvestExportFailFast(i) ==
  /\ prog = "export"
  /\ pc = "collect"
  /\ Yields(i)
  /\ Take(i)
  /\ IF result[i].kind = "raised"
       THEN pc' = "exit" /\ exit_code' = 1
       ELSE UNCHANGED <<pc, exit_code>>
  /\ UNCHANGED <<envVars, storeVars, disk, listVars, taskVars,
                 exportResults, importResults, completed, ghostVars,
                 manifest, abort, post>>

\* download_images: one turn of `for future in as_completed(...)`.
HarvestExport(i) ==
  /\ prog = "export"
  /\ pc = "collect"
  /\ Yields(i)
  /\ Take(i)
  /\ IF result[i].kind = "raised"
       THEN /\ failed_images' = Append(failed_images, images[i])
            /\ recorded' = [recorded EXCEPT ![i] = Append(@, "failed")]
            /\ errors' = [errors EXCEPT ![i] =
                 "processing " \o images[i] \o " raised: " \o result[i].e]
       ELSE UNCHANGED <<failed_images, recorded, errors>>
  /\ UNCHANGED <<envVars, storeVars, disk, pc, exit_code, listVars,
                 taskVars, downloaded_images, importResults, completed,
                 issued, trace, manifest, abort, post>>

\* import_images: one turn of `for future in as_completed(...)`.
HarvestImport(i) ==
  /\ prog = "import"
  /\ pc = "collect"
  /\ Yields(i)
  /\ Take(i)
  /\ LET r == result[i]
         f == tar_files[i]
     IN  CASE r.kind = "returned" /\ r.success ->
                /\ imported_images' = Append(imported_images, r.name)
                /\ recorded' = [recorded EXCEPT ![i] = Append(@, "succeeded")]
                /\ UNCHANGED <<failed_imports, errors>>
           [] r.kind = "returned" /\ ~r.success ->
                /\ failed_imports' =
                     Append(failed_imports, [file |-> f, error |-> r.error_msg])
                /\ recorded' = [recorded EXCEPT ![i] = Append(@, "failed")]
                /\ UNCHANGED <<imported_images, errors>>
           [] OTHER ->
                /\ failed_imports' =
                     Append(failed_imports, [file |-> f, error |-> r.e])
                /\ recorded' = [recorded EXCEPT ![i] = Append(@, "failed")]
                /\ errors' = [errors EXCEPT ![i] =
                     "processing " \o f \o " raised: " \o r.e]
                /\ UNCHANGED imported_images
  /\ UNCHANGED <<envVars, storeVars, disk, pc, exit_code, listVars,
                 taskVars, exportResults, skipped_images, completed, issued,
                 trace, manifest, abort, post>>

\* Mutant of Summary: the loop is left, and the summary shown, after the
\* first result.
SummaryAfterFirst ==
  /\ pc = "collect"
  /\ Len(harvested) >= 1
  /\ pc' = "post"
  /\ pre' = {}
  /\ finished_futures' = <<>>
  /\ harvested' = <<>>
  /\ UNCHANGED <<envVars, storeVars, disk, exit_code, listVars, taskVars,
                 exportResults, importResults, completed, ghostVars, manifest,
                 abort, post>>

\* The loop ends when every future has been yielded: the generator is
\* finished and its bookkeeping is gone.  The executor's with-block is left,
\* the summary is shown and the batch returns len(failed) == 0.
Summary ==
  /\ pc = "collect"
  /\ Len(harvested) = N
  /\ pc' = "post"
  /\ pre' = {}
  /\ finished_futures' = <<>>
  /\ harvested' = <<>>
  /\ UNCHANGED <<envVars, storeVars, disk, exit_code, listVars, taskVars,
                 exportResults, importResults, completed, ghostVars, manifest,
                 abort, post>>

\* The value download_images / import_images returned.
success ==
  IF prog = "export" THEN failed_images = <<>> ELSE failed_imports = <<>>

(***************************************************************************)
(* After the batch.                                                        *)
(***************************************************************************)
\* generate_manifest: one entry per downloaded image, size 0 for an archive
\* that is missing or empty, 1 standing for any positive size.
SizeBytes(path) == IF disk[path].st = "full" THEN 1 ELSE 0

ManifestOf(downloaded) ==
  [k \in 1..Len(downloaded) |->
     [name |-> downloaded[k], file |-> TarFile(downloaded[k]),
      size_bytes |-> SizeBytes(TarFile(downloaded[k]))]]

\* download_images.py main: "生成清单文件" and "退出码".  generate_manifest
\* has no except clause: an error while writing ends the process.
FinishExport ==
  /\ prog = "export"
  /\ pc = "post"
  /\ \E no_manifest \in BOOLEAN, written \in BOOLEAN :
       IF ~no_manifest /\ downloaded_images # <<>>
         THEN IF written
                THEN /\ manifest' = ManifestOf(downloaded_images)
                     /\ post' = "manifest_written"
                     /\ exit_code' = IF success THEN 0 ELSE 1
                ELSE /\ manifest' = manifest
                     /\ post' = "manifest_error"
                     /\ exit_code' = 1
         ELSE /\ manifest' = manifest
              /\ post' = "no_manifest"
              /\ exit_code' = IF success THEN 0 ELSE 1
  /\ pc' = "exit"
  /\ UNCHANGED <<envVars, storeVars, disk, listVars, batchVars, abort>>

\* import_images.py main: cleanup_dangling_images (every exception is
\* caught), list_imported_images (only CalledProcessError is caught) and
\* "退出码".
FinishImport ==
  /\ prog = "import"
  /\ pc = "post"
  /\ \E cleanup \in BOOLEAN, list \in {"no", "ok", "failed", "raised"} :
       IF list = "raised"
         THEN post' = "list_error" /\ exit_code' = 1
         ELSE /\ post' = (IF cleanup THEN "cleanup" ELSE "plain")
              /\ exit_code' = IF success THEN 0 ELSE 1
  /\ pc' = "exit"
  /\ UNCHANGED <<envVars, storeVars, disk, listVars, batchVars, manifest,
                 abort>>

Next ==
  \/ ParseArgs
  \/ CheckDocker
  \/ GetImageList
  \/ GetFileList
  \/ VerifyManifest
  \/ Submit
  \/ \E i \in Tasks : TaskStart(i)
  \/ \E i \in Tasks : PullImage(i)
  \/ \E i \in Tasks : SaveCheck(i)
  \/ \E i \in Tasks : SaveOpen(i)
  \/ \E i \in Tasks : SaveDone(i)
  \/ \E i \in Tasks : ImportPrecheck(i)
  \/ \E i \in Tasks : LoadDone(i)
  \/ AsCompleted
  \/ \E i \in Tasks : HarvestExport(i)
  \/ \E i \in Tasks : HarvestImport(i)
  \/ Summary
  \/ FinishExport
  \/ FinishImport

Spec == Init /\ [][Next]_vars

(***************************************************************************)
(* Properties.                                                             *)
(***************************************************************************)
\* The three result collections of the running program.
Succeeded == IF prog = "export" THEN downloaded_images ELSE imported_images
Failed == IF prog = "export" THEN failed_images ELSE failed_imports

\* The batch was started and its pool has drained.
Drained == pc \in {"post", "exit"} /\ Len(tpc) > 0

Count(x, seq) == Cardinality({k \in DOMAIN seq : seq[k] = x})

RecordedAs(c) == {i \in Tasks : recorded[i] = <<c>>}

\* The collection a task belongs in by what its own future holds.
Classify(r) ==
  IF r.kind = "returned" /\ r.success THEN "succeeded" ELSE "failed"

\* The image was in the local store when the run began, and its archive was
\* then a non-empty file of the output directory.
PresentAndArchived(x) ==
  /\ x \in start.local_images
  /\ TarFile(x) \in DOMAIN start.disk
  /\ start.disk[TarFile(x)].st = "full"

Pos(seq, x) == CHOOSE k \in DOMAIN seq : seq[k] = x

\* C1: once the pool has drained, every item was submitted, exactly N results
\* are recorded, and each task has exactly one record, in the succeeded, the
\* failed or the skipped collection, whatever the completion order and
\* whether it returned or raised.
C1_ExactlyOneRecordPerTask ==
  Drained =>
    /\ Len(tpc) = N
    /\ Len(Succeeded) + Len(Failed) + Len(skipped_images) = N
    /\ \A i \in Tasks : Len(recorded[i]) = 1
    /\ Cardinality(RecordedAs("succeeded")) = Len(Succeeded)
    /\ Cardinality(RecordedAs("failed")) = Len(Failed)
    /\ Cardinality(RecordedAs("skipped")) = Len(skipped_images)
    /\ prog = "export" =>
         \A x \in Range(images) :
           Count(x, images) =
             Count(x, downloaded_images) + Count(x, failed_images)

\* A drained batch of two in which the second task finished first, one task
\* raised and one succeeded.
C1_Witness ==
  /\ Drained
  /\ N = 2
  /\ completed = <<2, 1>>
  /\ \E i \in Tasks : result[i].kind = "raised"
  /\ \E i \in Tasks : recorded[i] = <<"succeeded">>

\* C2 (as claimed): a run whose batch was started exits with 0 if the failed
\* collection is empty and with 1 otherwise, whatever the post-batch steps do.
C2_ExitCodeFollowsFailed ==
  (pc = "exit" /\ Len(tpc) > 0) =>
    exit_code = (IF Failed = <<>> THEN 0 ELSE 1)

\* --db and --version are the only source selector on the command line.
OnlyDbSelector ==
  /\ prog = "export"
  /\ args.compose = None
  /\ args.images = <<>>
  /\ args.db \in DbChoices
  /\ args.version \in VersionChoices

\* C3 (as claimed): with (--db, --version) as the only source selector, a
\* pair of the table, docker available, and both table images present
\* locally with non-empty archives, the run ends with the two table images
\* succeeded, none failed, none skipped and exit code 0.
C3_TableSelectorRuns ==
  ( /\ pc = "exit"
    /\ OnlyDbSelector
    /\ abort # "no_docker"
    /\ \A x \in Range(get_predefined_images(args.db, args.version)) :
         PresentAndArchived(x) )
  => /\ exit_code = 0
     /\ images = get_predefined_images(args.db, args.version)
     /\ Len(downloaded_images) = 2
     /\ failed_images = <<>>
     /\ skipped_images = <<>>

\* C4: for an image that is in the local store and has a non-empty archive
\* when an export run starts, the run issues no docker pull and no docker
\* save (neither for it nor for another reference with the same archive
\* path), leaves the archive file as it found it, and records each finished
\* task of the image as succeeded.
C4_ExportIdempotent ==
  \A i \in Tasks :
    (prog = "export" /\ PresentAndArchived(images[i])) =>
      /\ <<"pull", images[i]>> \notin issued
      /\ \A y \in Range(images) :
           TarFile(y) = TarFile(images[i]) => <<"save", y>> \notin issued
      /\ disk[TarFile(images[i])] = start.disk[TarFile(images[i])]
      /\ images[i] \in local_images
      /\ tpc[i] = "done" =>
           /\ recorded[i] = <<"succeeded">>
           /\ result[i] = Returned(images[i], TRUE, "")
           /\ images[i] \in Range(downloaded_images)

\* A finished export of two images that were both present and archived.
C4_Witness ==
  /\ prog = "export"
  /\ pc = "exit"
  /\ N = 2
  /\ \A i \in Tasks : PresentAndArchived(images[i]) /\ tpc[i] = "done"
  /\ Len(downloaded_images) = 2

\* C5 (as claimed): no two export tasks are writing the same archive path at
\* the same time.
C5_DisjointArchivePaths ==
  \A i, j \in Tasks :
    (prog = "export" /\ i # j /\ tpc[i] = "saving" /\ tpc[j] = "saving") =>
      TarFile(images[i]) # TarFile(images[j])

\* C6 (as claimed): every entry of a written manifest names an archive that
\* exists and is not empty when the manifest is written.
C6_ManifestEntriesArchived ==
  post = "manifest_written" =>
    \A k \in DOMAIN manifest :
      /\ disk[manifest[k].file].st = "full"
      /\ manifest[k].size_bytes > 0

C8_PreRunAbort ==
  ( \/ abort = "no_docker"
    \/ /\ pc \notin {"parse_args", "check_docker", "get_list"}
       /\ abort # "usage"
       /\ N = 0 )
  => /\ pc = "exit"
     /\ exit_code = 1
     /\ tpc = <<>>
     /\ issued = {}

\* An import pointed at an existing directory without archives, and stopped.
C8_Witness ==
  /\ prog = "import"
  /\ pc = "exit"
  /\ dir_exists
  /\ args.files = <<>>
  /\ abort = "no_files"

\* C9 (as claimed): on export the exit code follows the failed count also
\* when writing the manifest failed; on import the batch over the files
\* found runs whatever images_manifest.json holds.
C9_ManifestNeverFatal ==
  /\ (prog = "export" /\ pc = "exit" /\ post = "manifest_error") =>
       exit_code = (IF failed_images = <<>> THEN 0 ELSE 1)
  /\ (prog = "import" /\ pc = "exit" /\ tar_files # <<>>) =>
       (Len(tpc) = N /\ abort = "none")

\* At most max_workers tasks are executing, and a result is collected only
\* once its task has finished.
C10_Bounded ==
  /\ Cardinality({i \in Tasks : Running(i)}) <= max_workers
  /\ Range(harvested) \subseteq Range(completed)

\* C10 (as claimed): at most max_workers tasks are executing and results are
\* collected in completion order.
C10_CompletionOrder ==
  /\ C10_Bounded
  /\ \A a, b \in DOMAIN harvested :
       a < b => Pos(completed, harvested[a]) < Pos(completed, harvested[b])

\* C10 (amended): at most max_workers tasks are executing; results are
\* collected in completion order, except that the tasks already finished
\* when collection begins are collected first, in no particular order.
C10_CompletionOrderAfterStart ==
  /\ C10_Bounded
  /\ \A a, b \in DOMAIN harvested :
       a < b =>
         \/ Pos(completed, harvested[a]) < Pos(completed, harvested[b])
         \/ {harvested[a], harvested[b]} \subseteq pre

\* With two workers, no task had finished when collection began; the
\* second finished first and its result is collected while the first,
\* submitted before it, is still executing.
C10_Witness ==
  /\ pc = "collect"
  /\ max_workers = 2
  /\ pre = {}
  /\ completed = <<2>>
  /\ harvested = <<2>>
  /\ Running(1)

\* The list the user gave: --images on export, --files on import.
ExplicitList == IF prog = "export" THEN args.images ELSE args.files

\* C11 (as claimed): when the command line names the work items one by one
\* and the run got past resolving its work list, the work list equals the
\* list given, and once the pool has drained every listed item has one
\* recorded result.
C11_ExplicitListVerbatim ==
  ( /\ ExplicitList # <<>>
    /\ abort \notin {"usage", "no_docker"}
    /\ pc \notin {"parse_args", "check_docker", "get_list"} )
  => /\ Items = ExplicitList
     /\ Drained =>
          \A k \in DOMAIN ExplicitList :
            k \in Tasks /\ Len(recorded[k]) = 1

\* What download_and_save_image makes of its two calls.
BothSucceeded(i) == trace[i].pull = "True" /\ trace[i].save = "True"

\* C12: in an export task save_image is called only after pull_image returned
\* True for the same item (a failed pull is never followed by a save of it),
\* and once the pool has drained the item is recorded as succeeded if both
\* calls returned True and as failed otherwise.
C12_SaveOnlyAfterPull ==
  \A i \in Tasks :
    prog = "export" =>
      /\ (tpc[i] \in {"save", "open", "saving"} \/ trace[i].seen # "none"
            \/ trace[i].opened \/ trace[i].save # "none")
           => trace[i].pull = "True"
      /\ trace[i].pull \in {"False", "raised"} =>
           /\ tpc[i] = "done"
           /\ trace[i].save = "none"
           /\ <<"save", images[i]>> \in issued =>
                \E j \in Tasks : j # i /\ images[j] = images[i]
                                  /\ trace[j].opened
      /\ recorded[i] = <<"succeeded">> => BothSucceeded(i)
      /\ Drained =>
           recorded[i] =
             <<IF BothSucceeded(i) THEN "succeeded" ELSE "failed">>

\* A drained export of two images: the pull of the first failed and no save
\* was issued for it, the second was pulled and saved.
C12_Witness ==
  /\ prog = "export"
  /\ Drained
  /\ N = 2
  /\ trace[1].pull = "False" /\ recorded[1] = <<"failed">>
  /\ <<"save", images[1]>> \notin issued
  /\ <<"pull", images[2]>> \in issued
  /\ trace[2].opened /\ BothSucceeded(2)
  /\ recorded[2] = <<"succeeded">>

\* C13 (as claimed): save_image skips the write and returns True exactly when
\* the archive file exists and is not empty at its test; when the file is
\* absent or empty it opens the file and starts `docker save`, and returns
\* True only if that ran.
C13_SkipOnlyNonEmpty ==
  \A i \in Tasks :
    (prog = "export" /\ trace[i].seen # "none") =>
      /\ trace[i].seen = "full" =>
           (~trace[i].opened /\ trace[i].save = "True")
      /\ trace[i].seen \in {"absent", "empty"} =>
           (trace[i].save = "True" => trace[i].opened)

\* C14 (as claimed): when save_image found no file at its archive path, no
\* other item of the work list has that path, and it returned False, the
\* path holds no file.
C14_NoFileAfterFailedSave ==
  \A i \in Tasks :
    ( /\ prog = "export"
      /\ trace[i].seen = "absent"
      /\ trace[i].save = "False"
      /\ \A j \in DOMAIN images :
           j # i => TarFile(images[j]) # TarFile(images[i]) )
    => ~Exists(TarFile(images[i]))

\* C15 (as claimed): the name an import task with a successful load is
\* recorded under is the name parsed from the 'Loaded image:' line, and when
\* there is no such line it is the name inferred from the archive's file
\* name wherever the file name yields one.
C15_NameParsedOrGuessed ==
  \A i \in Tasks :
    (prog = "import" /\ recorded[i] = <<"succeeded">>) =>
      LET name == result[i].name
          stderr == trace[i].stderr
          guess == get_image_name_from_tar(tar_files[i])
      IN  /\ name \in Range(imported_images)
          /\ IF ImportedImage(stderr) # "unknown"
               THEN name = ImportedImage(stderr)
               ELSE guess # None => name = guess

\* A step of a task, or of the collector loop, for task i.
BatchStep(i) ==
  \/ TaskStart(i)
  \/ PullImage(i) \/ SaveCheck(i) \/ SaveOpen(i) \/ SaveDone(i)
  \/ ImportPrecheck(i) \/ LoadDone(i)
  \/ HarvestExport(i) \/ HarvestImport(i)

\* C16: once the summary has been shown, every item of the work list was
\* submitted, every task has finished and has its one record, no step of a
\* task or of the collector loop can happen any more, and a manifest is
\* written only then, over the downloaded images as they are at the end.
C16_SummaryIsBarrier ==
  /\ Drained =>
       /\ Len(tpc) = N
       /\ \A i \in Tasks :
            /\ tpc[i] = "done"
            /\ result[i].kind # "pending"
            /\ Len(recorded[i]) = 1
            /\ ~ENABLED BatchStep(i)
       /\ ~ENABLED Submit
       /\ Len(Succeeded) + Len(Failed) + Len(skipped_images) = N
  /\ post # "none" => Drained
  /\ post = "manifest_written" =>
       /\ pc = "exit"
       /\ Len(manifest) = Len(downloaded_images)
       /\ \A k \in DOMAIN manifest : manifest[k].name = downloaded_images[k]

\* An export of two images has ended with its manifest written: the second
\* task finished first, one task failed and one image was downloaded.
C16_Witness ==
  /\ prog = "export"
  /\ pc = "exit"
  /\ post = "manifest_written"
  /\ N = 2
  /\ completed = <<2, 1>>
  /\ Len(failed_images) = 1
  /\ Len(manifest) = 1

====
